---- MODULE Spec2Model ----
(***************************************************************************)
(* Facepass identity-matching engine: the face-embedding matchers, the     *)
(* process-wide cluster index and the registration handler.                *)
(*                                                                         *)
(* Numbers: embeddings are vectors of integers in tenths, so the match     *)
(* threshold 0.7 of the source is 7 here, and `distance <= threshold` is   *)
(* decided on the squares (Dist2(a, b) <= t * t), which is the same        *)
(* comparison for non-negative thresholds.                                 *)
(*                                                                         *)
(* Strings stored in users.face_embedding are records that keep the text   *)
(* format apart: fmt = "json" is the text json.dumps writes, fmt =         *)
(* "fernet" is a token of the vault cipher.  json.loads and                *)
(* decrypt_embedding each read only their own format.                      *)
(***************************************************************************)
EXTENDS Integers, Sequences, FiniteSets, TLC

VARIABLES users, credentials, cluster_index, heap, last, probe, pc, loc

vars == <<users, credentials, cluster_index, heap, last, probe, pc, loc>>

(***************************************************************************)
(* Bounds of the model.                                                    *)
(***************************************************************************)
MaxUsers == 3

MaxSnap == 3

MaxTopK == 4

MaxClustersToCheck == 2

NumThreads == 2

\* rows of the largest snapshot an index is built from in SpecIndex
MaxIndexSnap == 10

\* rows of the largest snapshot of SpecDim
MaxDimSnap == 2
\* rows the credentials table holds at most
MaxCreds == 3

(***************************************************************************)
(* Program constants.                                                      *)
(***************************************************************************)
DefaultThreshold == 7

ClusterTargetSize == 5

MinOptimalClusters == 20

MaxOptimalClusters == 200

UsersPerOptimalCluster == 500

MAX_EMBEDDING_DIM == 4096

MaxAbsValue == 10000000

VaultKey == 1

\* a key another deployment encrypts with
OtherKey == VaultKey + 1

\* list elements are numbers in tenths; these two values stand for an element that is
\* not a number (a string) and for float('nan')
NonNumericItem == 10 * MaxAbsValue

NaNItem == 10 * MaxAbsValue + 1

(***************************************************************************)
(* Input domains.                                                          *)
(***************************************************************************)
Embeddings == {<<0, 0>>, <<7, 0>>, <<5, 5>>, <<10, 10>>}

Thresholds == {5, 7, 8}

CenterChoices == {<<0, 0>>, <<10, 10>>}

Usernames == {"ann", "bob", "cat"}

SearchThresholds == {7, 8}

Passwords == {"", "pw"}

\* payload.image_base64: missing, an image with no usable face, or an image of a face
\* that the embedding provider maps to embedding e
Images ==
    {[kind |-> "missing", e |-> <<>>], [kind |-> "noface", e |-> <<>>]}
        \cup {[kind |-> "face", e |-> e] : e \in Embeddings}

NClusterArgs == {1, 20}

Threads == 1..NumThreads

ObjIds == 1..(NumThreads + 1)

Min(a, b) == IF a <= b THEN a ELSE b

Max(a, b) == IF a >= b THEN a ELSE b

MinOf(S) == CHOOSE x \in S : \A y \in S : x <= y

(***************************************************************************)
(* Values a call hands back: a user id, None, or a raised exception.       *)
(***************************************************************************)
Ret(id) == [kind |-> "user", id |-> id, err |-> ""]

RetNone == [kind |-> "none", id |-> 0, err |-> ""]

Raise(e) == [kind |-> "raise", id |-> 0, err |-> e]

NotRun == [kind |-> "notrun", id |-> 0, err |-> ""]

Parsed(v) == [ok |-> TRUE, val |-> v, err |-> ""]

ParseErr(e) == [ok |-> FALSE, val |-> <<>>, err |-> e]

(***************************************************************************)
(* Text formats.  A string is a record: fmt tells what kind of text it is  *)
(* ("json", a Fernet token "fernet", or other text "text"); type and val   *)
(* are the JSON value it spells ("list" with its elements, or another JSON *)
(* type).  A token carries the key and IV it was made with, whether its    *)
(* HMAC still verifies (mac) and the plaintext's own fmt (inner).          *)
(***************************************************************************)
Text(fmt, type, val) ==
    [fmt |-> fmt, key |-> 0, iv |-> 0, mac |-> "", inner |-> "", type |-> type, val |-> val]

\* json.dumps of a list
JsonDumps(v) == Text("json", "list", v)

\* json.loads: the value of a JSON text, JSONDecodeError for any other text
JsonLoads(s) == IF s.fmt = "json" THEN Parsed(s.val) ELSE ParseErr("JSONDecodeError")

\* Fernet(key).encrypt(text) with the IV the call drew
FernetEncrypt(k, s, iv) ==
    [fmt |-> "fernet", key |-> k, iv |-> iv, mac |-> "ok", inner |-> s.fmt,
     type |-> s.type, val |-> s.val]

EncryptSecretDropLast(s, iv) ==
    FernetEncrypt(VaultKey, Text(s.fmt, s.type, SubSeq(s.val, 1, Len(s.val) - 1)), iv)

\* security.encrypt_secret: VAULT_CIPHER.encrypt
EncryptSecret(s, iv) == FernetEncrypt(VaultKey, s, iv)

DecryptSecretAnyToken(s) ==
    IF s.fmt = "fernet"
    THEN Parsed(Text(s.inner, s.type, s.val))
    ELSE ParseErr("InvalidToken")

\* security.decrypt_secret: VAULT_CIPHER.decrypt gives the plaintext of a token made
\* under the vault key whose HMAC verifies, InvalidToken for anything else
DecryptSecret(s) ==
    IF s.fmt = "fernet" /\ s.key = VaultKey /\ s.mac = "ok"
    THEN Parsed(Text(s.inner, s.type, s.val))
    ELSE ParseErr("InvalidToken")

\* Python values handed to the codec: a list, or something that is not a list
PyList(v) == [type |-> "list", val |-> v]

PyArray(v) == [type |-> "ndarray", val |-> v]

\* isinstance(x, (int, float)): NonNumericItem stands for an element that is neither
IsNumber(x) == x # NonNumericItem

\* -1e6 < value < 1e6; every comparison with float('nan') is false
InRange(x) == x # NaNItem /\ -MaxAbsValue < x /\ x < MaxAbsValue

ValidateEmbeddingFormatInclusive(x) ==
    IF x.type # "list" THEN "Embedding must be a list"
    ELSE IF Len(x.val) = 0 THEN "Embedding cannot be empty"
    ELSE IF Len(x.val) > MAX_EMBEDDING_DIM THEN "Embedding too large: max 4096 dimensions"
    ELSE IF \E i \in 1..Len(x.val) : ~IsNumber(x.val[i])
         THEN "Embedding must contain only numbers"
    ELSE IF \E i \in 1..Len(x.val) :
                ~(x.val[i] # NaNItem /\ -MaxAbsValue <= x.val[i] /\ x.val[i] <= MaxAbsValue)
         THEN "Embedding contains out-of-range values"
    ELSE ""

\* validate_embedding_format: "" when it returns, else the message of the ValueError
ValidateEmbeddingFormat(x) ==
    IF x.type # "list" THEN "Embedding must be a list"
    ELSE IF Len(x.val) = 0 THEN "Embedding cannot be empty"
    ELSE IF Len(x.val) > MAX_EMBEDDING_DIM THEN "Embedding too large: max 4096 dimensions"
    ELSE IF \E i \in 1..Len(x.val) : ~IsNumber(x.val[i])
         THEN "Embedding must contain only numbers"
    ELSE IF \E i \in 1..Len(x.val) : ~InRange(x.val[i])
         THEN "Embedding contains out-of-range values"
    ELSE ""

\* encrypt_embedding: validate, then encrypt the JSON text.
EncryptEmbedding(x, iv) ==
    IF ValidateEmbeddingFormat(x) # ""
    THEN [ok |-> FALSE, str |-> Text("text", "", <<>>), err |-> ValidateEmbeddingFormat(x)]
    ELSE [ok |-> TRUE, str |-> EncryptSecret(JsonDumps(x.val), iv), err |-> ""]

\* decrypt_embedding: decrypt, json.loads, isinstance(list); every failure is a
\* ValueError with the message given here.
DecryptEmbedding(s) ==
    IF ~DecryptSecret(s).ok
    THEN ParseErr("Unable to decrypt embedding: data may be corrupted")
    ELSE IF ~JsonLoads(DecryptSecret(s).val).ok
    THEN ParseErr("Unable to parse embedding: invalid data format")
    ELSE IF DecryptSecret(s).val.type # "list"
    THEN ParseErr("Embedding must be a list")
    ELSE Parsed(JsonLoads(DecryptSecret(s).val).val)

(***************************************************************************)
(* Distance metric.                                                        *)
(***************************************************************************)
RECURSIVE SumSq(_, _, _)
SumSq(a, b, i) ==
    IF i = 0 THEN 0
    ELSE (a[i] - b[i]) * (a[i] - b[i]) + SumSq(a, b, i - 1)

\* a - b on numpy arrays is defined when the lengths are equal or one of them is 1
Broadcastable(a, b) == Len(a) = Len(b) \/ Len(a) = 1 \/ Len(b) = 1

\* numpy stretches an array of length 1 to the length n of the other operand
Stretch(a, n) == IF Len(a) = n THEN a ELSE [i \in 1..n |-> a[1]]

\* square of np.linalg.norm(a - b), for shapes numpy can subtract
Dist2(a, b) ==
    IF Len(a) = Len(b) THEN SumSq(a, b, Len(a))
    ELSE LET n == IF Len(a) = 1 THEN Len(b) ELSE Len(a)
         IN  SumSq(Stretch(a, n), Stretch(b, n), n)

WithinStrict(d2, t) == d2 < t * t

\* distance <= threshold
Within(d2, t) == d2 <= t * t

EmbeddingsMatchStrict(a, b, t) == Dist2(a, b) < t * t

EmbeddingsMatch(a, b, t) == Within(Dist2(a, b), t)

EmbeddingsMatchCallCapped(a, b, t) ==
    IF ~Broadcastable(a, b) THEN Raise("ValueError")
    ELSE [kind |-> "bool", id |-> IF EmbeddingsMatch(a, b, t) /\ t <= DefaultThreshold THEN 1 ELSE 0,
          err |-> ""]

\* a call of face.embeddings_match: the decision, or numpy's ValueError when the
\* shapes cannot be subtracted
EmbeddingsMatchCall(a, b, t) ==
    IF ~Broadcastable(a, b) THEN Raise("ValueError")
    ELSE [kind |-> "bool", id |-> IF EmbeddingsMatch(a, b, t) THEN 1 ELSE 0, err |-> ""]

(***************************************************************************)
(* Greedy ranked matcher.                                                  *)
(***************************************************************************)
InsertScoreFront(s, x) == <<x>> \o s

\* insert x into the sorted sequence s after every element with d2 <= x.d2 (stable)
RECURSIVE InsertScore(_, _)
InsertScore(s, x) ==
    IF Len(s) = 0 THEN <<x>>
    ELSE IF s[Len(s)].d2 <= x.d2 THEN Append(s, x)
    ELSE Append(InsertScore(SubSeq(s, 1, Len(s) - 1), x), s[Len(s)])

SortScoresUnsorted(s) == s

RECURSIVE SortScores(_)
SortScores(s) ==
    IF Len(s) = 0 THEN <<>>
    ELSE InsertScore(SortScores(SubSeq(s, 1, Len(s) - 1)), s[Len(s)])

FirstWithinLast(cands, t) ==
    LET hits == {i \in 1..Len(cands) : Within(cands[i].d2, t)}
    IN  IF hits = {} THEN RetNone ELSE Ret(cands[CHOOSE i \in hits : \A j \in hits : j <= i].id)

FirstWithin(cands, t) ==
    LET hits == {i \in 1..Len(cands) : Within(cands[i].d2, t)}
    IN  IF hits = {} THEN RetNone ELSE Ret(cands[MinOf(hits)].id)

GreedyFaceSearch(q, us, t, top_k) ==
    IF Len(us) = 0 THEN RetNone
    ELSE IF \E i \in 1..Len(us) : ~JsonLoads(us[i].face_embedding).ok
    THEN Raise("JSONDecodeError")
    ELSE IF \E i \in 1..Len(us) : ~Broadcastable(q, JsonLoads(us[i].face_embedding).val)
    THEN Raise("ValueError")
    ELSE LET quick_scores == [i \in 1..Len(us) |->
                                [id |-> us[i].id,
                                 d2 |-> Dist2(q, JsonLoads(us[i].face_embedding).val)]]
             sorted == SortScores(quick_scores)
             top_candidates == SubSeq(sorted, 1, Min(top_k, Len(sorted)))
         IN  FirstWithin(top_candidates, t)

GreedyFaceCheckDuplicate(q, us, t, top_k) ==
    IF GreedyFaceSearch(q, us, t, top_k).kind = "raise"
    THEN GreedyFaceSearch(q, us, t, top_k)
    ELSE [kind |-> "bool", id |-> IF GreedyFaceSearch(q, us, t, top_k).kind = "user" THEN 1 ELSE 0,
          err |-> ""]

(***************************************************************************)
(* Linear scans.  Each decodes one stored embedding at a time and stops at *)
(* the first match, so a later undecodable row is never touched.           *)
(***************************************************************************)
RECURSIVE DecryptScanFrom(_, _, _, _)
DecryptScanFrom(q, us, t, i) ==
    IF i > Len(us) THEN RetNone
    ELSE IF ~DecryptEmbedding(us[i].face_embedding).ok
    THEN Raise(DecryptEmbedding(us[i].face_embedding).err)
    ELSE IF Within(Dist2(q, DecryptEmbedding(us[i].face_embedding).val), t) THEN Ret(us[i].id)
    ELSE DecryptScanFrom(q, us, t, i + 1)

\* benchmark_face_search.naive_face_search
NaiveFaceSearch(q, us, t) == DecryptScanFrom(q, us, t, 1)

\* the inline scan of benchmark_clustering.benchmark_clustering (threshold 0.7)
BenchmarkLinearScan(q, us) == DecryptScanFrom(q, us, DefaultThreshold, 1)

(***************************************************************************)
(* ClusterIndex.  cluster_centers = <<>> stands for None; cluster_map is a *)
(* defaultdict(list): a function whose domain is the set of keys present.  *)
(* Centroid c of the source (0-based) is cluster_centers[c + 1].           *)
(***************************************************************************)
EmptyMap == [x \in {} |-> <<>>]

NewClusterIndex(n) ==
    [n_clusters |-> n, cluster_centers |-> <<>>, cluster_map |-> EmptyMap,
     user_embeddings |-> EmptyMap, is_built |-> FALSE]

NClustersNoFloor(n_clusters, n) == Min(n_clusters, Max(1, n))

\* n_clusters = min(self.n_clusters, max(1, len(users) // 5))
NClusters(n_clusters, n) == Min(n_clusters, Max(1, n \div ClusterTargetSize))

\* optimal_clusters = max(20, min(200, num_users // 500))
OptimalClusters(n) ==
    Max(MinOptimalClusters, Min(MaxOptimalClusters, n \div UsersPerOptimalCluster))

KMeansFail == [ok |-> FALSE, labels |-> <<>>, centers |-> <<>>]

\* the labellings of n rows with labels 0..k-1 that are enumerated: rows 1..m get one
\* label and the rest another (every split m and pair of labels, so also the constant
\* labellings), and the round-robin labelling.  With k = 1 this is every labelling.
Labellings(n, k) ==
    {[i \in 1..n |-> IF i <= m THEN a ELSE b] : m \in 0..n, a \in 0..(k - 1), b \in 0..(k - 1)}
        \cup {[i \in 1..n |-> i % k]}

\* MiniBatchKMeans(n_clusters = k).fit_predict on n rows: an external routine.  It
\* either raises or yields k centroids and one label in 0..k-1 per row.
KMeansOutcomes(n, k) ==
    {[ok |-> TRUE, labels |-> l, centers |-> c] :
        l \in Labellings(n, k), c \in [1..k -> CenterChoices]} \cup {KMeansFail}

\* the loop of build_index that parses every stored embedding into user_embeddings;
\* it stops at the first row json.loads rejects, keeping what it wrote so far
RECURSIVE LoadEmbeddings(_, _, _)
LoadEmbeddings(ue, us, i) ==
    IF i > Len(us) THEN [ue |-> ue, ok |-> TRUE]
    ELSE IF ~JsonLoads(us[i].face_embedding).ok THEN [ue |-> ue, ok |-> FALSE]
    ELSE LoadEmbeddings((us[i].id :> JsonLoads(us[i].face_embedding).val) @@ ue, us, i + 1)

MapAppendOverwrite(cm, label, id) == (label :> <<id>>) @@ cm

\* self.cluster_map[int(label)].append(user_id)
MapAppend(cm, label, id) ==
    IF label \in DOMAIN cm THEN [cm EXCEPT ![label] = Append(@, id)]
    ELSE (label :> <<id>>) @@ cm

RECURSIVE FillClusterMap(_, _, _, _)
FillClusterMap(cm, us, labels, i) ==
    IF i > Len(us) THEN cm
    ELSE FillClusterMap(MapAppend(cm, labels[i], us[i].id), us, labels, i + 1)

\* does build_index on this index and snapshot get as far as the clustering call?
ReachesKMeans(idx, us) == Len(us) > 0 /\ LoadEmbeddings(idx.user_embeddings, us, 1).ok

KMeansChoices(idx, us) ==
    IF ReachesKMeans(idx, us)
    THEN KMeansOutcomes(Len(us), NClusters(idx.n_clusters, Len(us)))
    ELSE {KMeansFail}

BuildIndexEmptyNoop(idx, us, km) ==
    IF Len(us) = 0 THEN [idx |-> idx, exc |-> ""]
    ELSE LET ld == LoadEmbeddings(idx.user_embeddings, us, 1)
         IN  IF ~ld.ok
             THEN [idx |-> [idx EXCEPT !.user_embeddings = ld.ue], exc |-> "JSONDecodeError"]
             ELSE IF ~km.ok
             THEN [idx |-> [idx EXCEPT !.user_embeddings = ld.ue], exc |-> "KMeansError"]
             ELSE [idx |-> [idx EXCEPT !.user_embeddings = ld.ue,
                                       !.cluster_centers = km.centers,
                                       !.cluster_map = FillClusterMap(EmptyMap, us, km.labels, 1),
                                       !.is_built = TRUE],
                   exc |-> ""]

\* ClusterIndex.build_index, with km the outcome of the clustering call
BuildIndex(idx, us, km) ==
    IF Len(us) = 0 THEN [idx |-> [idx EXCEPT !.is_built = FALSE], exc |-> ""]
    ELSE LET ld == LoadEmbeddings(idx.user_embeddings, us, 1)
         IN  IF ~ld.ok
             THEN [idx |-> [idx EXCEPT !.user_embeddings = ld.ue], exc |-> "JSONDecodeError"]
             ELSE IF ~km.ok
             THEN [idx |-> [idx EXCEPT !.user_embeddings = ld.ue], exc |-> "KMeansError"]
             ELSE [idx |-> [idx EXCEPT !.user_embeddings = ld.ue,
                                       !.cluster_centers = km.centers,
                                       !.cluster_map = FillClusterMap(EmptyMap, us, km.labels, 1),
                                       !.is_built = TRUE],
                   exc |-> ""]

\* np.argsort: positions of d in ascending order of value (ties keep position order)
RECURSIVE InsertIdx(_, _, _)
InsertIdx(s, d, x) ==
    IF Len(s) = 0 THEN <<x>>
    ELSE IF d[s[Len(s)]] <= d[x] THEN Append(s, x)
    ELSE Append(InsertIdx(SubSeq(s, 1, Len(s) - 1), d, x), s[Len(s)])

RECURSIVE ArgSortUpTo(_, _)
ArgSortUpTo(d, n) ==
    IF n = 0 THEN <<>> ELSE InsertIdx(ArgSortUpTo(d, n - 1), d, n)

ArgSort(d) == ArgSortUpTo(d, Len(d))

RECURSIVE ScanMembers(_, _, _, _, _)
ScanMembers(ue, q, t, members, j) ==
    IF j > Len(members) THEN RetNone
    ELSE IF members[j] \notin DOMAIN ue THEN Raise("KeyError")
    ELSE IF Within(Dist2(q, ue[members[j]]), t) THEN Ret(members[j])
    ELSE ScanMembers(ue, q, t, members, j + 1)

\* reading self.cluster_map[cid] creates the key when it is missing (defaultdict)
Touch(cm, cid) == IF cid \in DOMAIN cm THEN cm ELSE (cid :> <<>>) @@ cm

RECURSIVE ScanClusters(_, _, _, _, _, _)
ScanClusters(cm, ue, q, t, cids, i) ==
    IF i > Len(cids) THEN [out |-> RetNone, cm |-> cm]
    ELSE LET cm1 == Touch(cm, cids[i])
             r == ScanMembers(ue, q, t, cm1[cids[i]], 1)
         IN  IF r.kind = "none" THEN ScanClusters(cm1, ue, q, t, cids, i + 1)
             ELSE [out |-> r, cm |-> cm1]

NearestClusterIdsAll(centers, q, nc) ==
    LET d == [c \in 1..Len(centers) |-> Dist2(centers[c], q)]
        order == ArgSort(d)
    IN  [i \in 1..Len(order) |-> order[i] - 1]

\* nearest_cluster_ids = np.argsort(distances_to_centers)[:num_clusters_to_check]
NearestClusterIds(centers, q, nc) ==
    LET d == [c \in 1..Len(centers) |-> Dist2(centers[c], q)]
        order == ArgSort(d)
    IN  [i \in 1..Min(nc, Len(order)) |-> order[i] - 1]

\* ClusterIndex.search
IndexSearch(idx, q, t, nc) ==
    IF ~idx.is_built \/ idx.cluster_centers = <<>> THEN [out |-> RetNone, idx |-> idx]
    ELSE LET r == ScanClusters(idx.cluster_map, idx.user_embeddings, q, t,
                               NearestClusterIds(idx.cluster_centers, q, nc), 1)
         IN  [out |-> r.out, idx |-> [idx EXCEPT !.cluster_map = r.cm]]

\* the sizes of the lists in cluster_map.values()
ClusterSizes(idx) == [c \in DOMAIN idx.cluster_map |-> Len(idx.cluster_map[c])]

RECURSIVE SumOver(_, _)
SumOver(f, S) ==
    IF S = {} THEN 0
    ELSE LET x == CHOOSE y \in S : TRUE IN f[x] + SumOver(f, S \ {x})

\* ClusterIndex.get_stats; avg_cluster_size is size_sum / num_clusters
GetStats(idx) ==
    IF ~idx.is_built
    THEN [status |-> "not_built", total_users |-> 0, num_clusters |-> 0, size_sum |-> 0,
          min_cluster_size |-> 0, max_cluster_size |-> 0]
    ELSE LET sizes == ClusterSizes(idx)
             vals == {sizes[c] : c \in DOMAIN sizes}
         IN  [status |-> "built",
              total_users |-> Cardinality(DOMAIN idx.user_embeddings),
              num_clusters |-> Cardinality(DOMAIN idx.cluster_map),
              size_sum |-> SumOver(sizes, DOMAIN sizes),
              min_cluster_size |-> IF vals = {} THEN 0 ELSE MinOf(vals),
              max_cluster_size |-> IF vals = {} THEN 0
                                   ELSE CHOOSE x \in vals : \A y \in vals : y <= x]

(***************************************************************************)
(* Snapshots as the test and benchmark harnesses build them.               *)
(***************************************************************************)
\* tests/test_face_search.create_mock_user: face_embedding = json.dumps(embedding)
TestMockUser(id, e) ==
    [id |-> id, username_hash |-> <<"mock", id>>, face_embedding |-> JsonDumps(e),
     password_hash |-> <<"mock", "hashed_password">>]

\* benchmark_*.create_mock_user: face_embedding = encrypt_embedding(embedding); the IV
\* drawn by the id-th call is named id
BenchMockUser(id, e) ==
    [id |-> id, username_hash |-> <<"mock", id>>, face_embedding |-> EncryptEmbedding(PyList(e), id).str,
     password_hash |-> <<"mock", "hashed_password">>]

Snapshots ==
    UNION {{[i \in 1..n |-> TestMockUser(i, es[i])] : es \in [1..n -> Embeddings]}
           \cup {[i \in 1..n |-> BenchMockUser(i, es[i])] : es \in [1..n -> Embeddings]}
           : n \in 0..MaxSnap}

\* the bearer token of a request: sub is the user id it was issued for; config's
\* JWT_SECRET signs it, so a request carries a token the application issued or none
NoToken == [sub |-> 0]

\* the last call and what it answered; build tells what get_or_build_index did in it
\* ("" no index involved, "kept", "built", "failed"); password and token are what
\* the request carried to authenticate
CallB(op, q, t, arg, out, build) ==
    [op |-> op, q |-> q, t |-> t, arg |-> arg, out |-> out, build |-> build,
     password |-> "", token |-> NoToken]

Call(op, q, t, arg, out) == CallB(op, q, t, arg, out, "")

NoCall == Call("", <<>>, 0, 0, NotRun)

\* the stored embedding of row i of a JSON-storing table
StoredEmbedding(us, i) == JsonLoads(us[i].face_embedding).val

(***************************************************************************)
(* SpecMatch: the matchers applied to a snapshot, a query and a threshold  *)
(* drawn at the start; probe.index is the harness's ClusterIndex object.   *)
(***************************************************************************)
\* the locals of a request in flight (SpecConc); idle in the other specifications
IdleLoc ==
    [op |-> "", name |-> "", q |-> <<>>, t |-> 0, nc |-> 0, force |-> FALSE, users |-> <<>>,
     self |-> 0, index |-> 0, i |-> 0, labels |-> <<>>, centers |-> <<>>, nearest |-> <<>>]

InitMatch ==
    /\ credentials = <<>>
    /\ users \in Snapshots
    /\ probe \in {[q |-> q, t |-> t, index |-> NewClusterIndex(n)] :
                     q \in Embeddings, t \in Thresholds, n \in NClusterArgs}
    /\ last = NoCall
    /\ cluster_index = 0
    /\ heap = EmptyMap
    /\ pc = [th \in Threads |-> "idle"]
    /\ loc = [th \in Threads |-> IdleLoc]

MGreedy ==
    /\ \E top_k \in 1..MaxTopK :
          last' = Call("greedy_face_search", probe.q, probe.t, top_k,
                       GreedyFaceSearch(probe.q, users, probe.t, top_k))
    /\ UNCHANGED <<credentials, users, cluster_index, heap, probe, pc, loc>>

MNaive ==
    /\ last' = Call("naive_face_search", probe.q, probe.t, 0,
                    NaiveFaceSearch(probe.q, users, probe.t))
    /\ UNCHANGED <<credentials, users, cluster_index, heap, probe, pc, loc>>

MBenchmarkLinear ==
    /\ last' = Call("benchmark_linear", probe.q, DefaultThreshold, 0,
                    BenchmarkLinearScan(probe.q, users))
    /\ UNCHANGED <<credentials, users, cluster_index, heap, probe, pc, loc>>

\* index.build_index(snapshot) with the harness's snapshot or with an empty list;
\* last.arg is the length of the snapshot handed over
MBuild ==
    /\ \E snapshot \in {users, <<>>} :
       \E km \in KMeansChoices(probe.index, snapshot) :
          LET b == BuildIndex(probe.index, snapshot, km)
          IN  /\ probe' = [probe EXCEPT !.index = b.idx]
              /\ last' = Call("build_index", <<>>, 0, Len(snapshot),
                              IF b.exc = "" THEN RetNone ELSE Raise(b.exc))
    /\ UNCHANGED <<credentials, users, cluster_index, heap, pc, loc>>

MSearch ==
    /\ \E nc \in 1..MaxClustersToCheck :
          LET r == IndexSearch(probe.index, probe.q, probe.t, nc)
          IN  /\ probe' = [probe EXCEPT !.index = r.idx]
              /\ last' = Call("index_search", probe.q, probe.t, nc, r.out)
    /\ UNCHANGED <<credentials, users, cluster_index, heap, pc, loc>>

MCheckDuplicate ==
    /\ \E top_k \in 1..MaxTopK :
          last' = Call("greedy_face_check_duplicate", probe.q, probe.t, top_k,
                       GreedyFaceCheckDuplicate(probe.q, users, probe.t, top_k))
    /\ UNCHANGED <<credentials, users, cluster_index, heap, probe, pc, loc>>

NextMatch == MGreedy \/ MCheckDuplicate \/ MNaive \/ MBenchmarkLinear \/ MBuild \/ MSearch

SpecMatch == InitMatch /\ [][NextMatch]_vars

(***************************************************************************)
(* SpecRebuild: one ClusterIndex built again and again while the table it  *)
(* is built from changes: each build is handed the first n rows of users   *)
(* (the rows after them are not, or no longer, in the table).              *)
(***************************************************************************)
\* index.build_index(users[:n]); last.arg is n
MBuildRows ==
    /\ \E n \in 0..Len(users) :
       \E km \in KMeansChoices(probe.index, SubSeq(users, 1, n)) :
          LET b == BuildIndex(probe.index, SubSeq(users, 1, n), km)
          IN  /\ probe' = [probe EXCEPT !.index = b.idx]
              /\ last' = Call("build_index", <<>>, 0, n,
                              IF b.exc = "" THEN RetNone ELSE Raise(b.exc))
    /\ UNCHANGED <<credentials, users, cluster_index, heap, pc, loc>>

NextRebuild == MBuildRows \/ MSearch

SpecRebuild == InitMatch /\ [][NextRebuild]_vars

(***************************************************************************)
(* SpecDim: embeddings_match and the greedy matcher on embeddings of       *)
(* different lengths.                                                      *)
(***************************************************************************)
DimEmbeddings == {<<>>, <<0>>, <<7>>, <<0, 0>>, <<7, 0>>, <<0, 0, 0>>}

DimSnapshots ==
    UNION {{[i \in 1..n |-> TestMockUser(i, es[i])] : es \in [1..n -> DimEmbeddings]}
           : n \in 0..MaxDimSnap}

InitDim ==
    /\ credentials = <<>>
    /\ users \in DimSnapshots
    /\ probe \in {[q |-> q, t |-> t, index |-> NewClusterIndex(0)] :
                     q \in DimEmbeddings, t \in Thresholds}
    /\ last = NoCall
    /\ cluster_index = 0
    /\ heap = EmptyMap
    /\ pc = [th \in Threads |-> "idle"]
    /\ loc = [th \in Threads |-> IdleLoc]

\* face.embeddings_match(query, stored embedding of row i, threshold); last.arg is i
DEmbeddingsMatch ==
    /\ \E i \in 1..Len(users) :
          last' = Call("embeddings_match", probe.q, probe.t, i,
                       EmbeddingsMatchCall(probe.q, StoredEmbedding(users, i), probe.t))
    /\ UNCHANGED <<credentials, users, cluster_index, heap, probe, pc, loc>>

NextDim == DEmbeddingsMatch \/ MGreedy

SpecDim == InitDim /\ [][NextDim]_vars

(***************************************************************************)
(* SpecIndex: a ClusterIndex built from and searched over snapshots large  *)
(* enough for more than one cluster (len(users) // 5 >= 2).  Rows hold     *)
(* two embeddings in alternation.                                          *)
(***************************************************************************)
IndexEmbeddingPairs ==
    {<<<<0, 0>>, <<10, 10>>>>, <<<<0, 0>>, <<7, 0>>>>, <<<<5, 5>>, <<5, 5>>>>}

LargeSnapshots ==
    {[i \in 1..n |-> TestMockUser(i, IF i % 2 = 1 THEN ab[1] ELSE ab[2])] :
        n \in (MaxIndexSnap - 1)..MaxIndexSnap, ab \in IndexEmbeddingPairs}

IndexQueries == {<<0, 0>>, <<10, 10>>}

InitIndex ==
    /\ credentials = <<>>
    /\ users \in LargeSnapshots
    /\ probe \in {[q |-> q, t |-> DefaultThreshold, index |-> NewClusterIndex(n)] :
                     q \in IndexQueries, n \in NClusterArgs}
    /\ last = NoCall
    /\ cluster_index = 0
    /\ heap = EmptyMap
    /\ pc = [th \in Threads |-> "idle"]
    /\ loc = [th \in Threads |-> IdleLoc]

\* index.get_stats(); last.q is the report as <<total_users, num_clusters, sum of the
\* cluster sizes, min_cluster_size, max_cluster_size>>
MGetStats ==
    /\ LET r == GetStats(probe.index)
       IN  last' = Call("get_stats",
                        IF r.status = "built"
                        THEN <<r.total_users, r.num_clusters, r.size_sum,
                               r.min_cluster_size, r.max_cluster_size>>
                        ELSE <<>>,
                        0, 0, [kind |-> r.status, id |-> 0, err |-> ""])
    /\ UNCHANGED <<credentials, users, cluster_index, heap, probe, pc, loc>>

NextIndex == MBuild \/ MSearch \/ MGetStats

SpecIndex == InitIndex /\ [][NextIndex]_vars

(***************************************************************************)
(* The application: the users table, the process-wide _cluster_index       *)
(* (cluster_index is the reference, 0 for None; heap holds the live        *)
(* ClusterIndex objects) and the handlers, one request at a time.          *)
(***************************************************************************)
HashUsername(u) == <<"sha256", u>>

HashPassword(p) == <<"bcrypt", p>>

\* face.compute_embedding: a ValueError when no face can be represented
ComputeEmbedding(img) ==
    IF img.kind = "face" THEN Parsed(img.e) ELSE ParseErr("No face detected.")

StoreIds(us) == {us[i].id : i \in 1..Len(us)}

FaceAlreadyRegisteredNever(e, us, i) == FALSE

\* the duplicate loop of register: json.loads each row, embeddings_match with the
\* default threshold, reject at the first match
RECURSIVE FaceAlreadyRegistered(_, _, _)
FaceAlreadyRegistered(e, us, i) ==
    IF i > Len(us) THEN FALSE
    ELSE IF EmbeddingsMatch(e, JsonLoads(us[i].face_embedding).val, DefaultThreshold) THEN TRUE
    ELSE FaceAlreadyRegistered(e, us, i + 1)

\* the row register inserts; the id is the table's next autoincrement value
NewUser(us, username, password, e) ==
    [id |-> Len(us) + 1, username_hash |-> HashUsername(username),
     face_embedding |-> JsonDumps(e), password_hash |-> HashPassword(password)]

\* objects no reference reaches are gone
Collect(hp, live) == [o \in (DOMAIN hp) \cap live |-> hp[o]]

NeedsBuildAlways(ptr, hp, force) == TRUE

\* _cluster_index is None or force_rebuild or not _cluster_index.is_built
NeedsBuild(ptr, hp, force) == ptr = 0 \/ force \/ ~hp[ptr].is_built

\* the index object get_or_build_index builds on: the current one, or a new one
\* sized from the snapshot when there is none
TargetIndex(ptr, hp, us) ==
    IF ptr = 0 THEN NewClusterIndex(OptimalClusters(Len(us))) ELSE hp[ptr]

\* get_or_build_index, with km the outcome of the clustering call if it is reached
GetOrBuildIndex(ptr, hp, us, force, km) ==
    IF NeedsBuild(ptr, hp, force)
    THEN LET p == IF ptr = 0 THEN MinOf(ObjIds \ DOMAIN hp) ELSE ptr
             b == BuildIndex(TargetIndex(ptr, hp, us), us, km)
         IN  [ptr |-> p, heap |-> (p :> b.idx) @@ hp, exc |-> b.exc,
              build |-> IF b.exc = "" THEN "built" ELSE "failed"]
    ELSE [ptr |-> ptr, heap |-> hp, exc |-> "", build |-> "kept"]

GetOrBuildChoices(ptr, hp, us, force) ==
    IF NeedsBuild(ptr, hp, force) THEN KMeansChoices(TargetIndex(ptr, hp, us), us)
    ELSE {KMeansFail}

Init ==
    /\ credentials = <<>>
    /\ users = <<>>
    /\ cluster_index = 0
    /\ heap = EmptyMap
    /\ last = NoCall
    /\ probe = [q |-> <<>>, t |-> 0, index |-> NewClusterIndex(0)]
    /\ pc = [th \in Threads |-> "idle"]
    /\ loc = [th \in Threads |-> IdleLoc]

\* POST /register.  last.q is the computed embedding, <<>> when the request is
\* answered before one is computed.
Register ==
    /\ Len(users) < MaxUsers
    /\ \E username \in Usernames \cup {""}, password \in Passwords, img \in Images :
          LET e == ComputeEmbedding(img)
              reject(q, detail) ==
                  /\ last' = Call("register", q, DefaultThreshold, 0, Raise(detail))
                  /\ users' = users
          IN  IF username = "" THEN reject(<<>>, "Username is required.")
              ELSE IF password = "" THEN reject(<<>>, "Password is required.")
              ELSE IF img.kind = "missing" THEN reject(<<>>, "Face image is required.")
              ELSE IF \E i \in 1..Len(users) : users[i].username_hash = HashUsername(username)
              THEN reject(<<>>, "Username already registered.")
              ELSE IF ~e.ok THEN reject(<<>>, e.err)
              ELSE IF FaceAlreadyRegistered(e.val, users, 1)
              THEN reject(e.val, "Face already registered.")
              ELSE /\ users' = Append(users, NewUser(users, username, password, e.val))
                   /\ last' = Call("register", e.val, DefaultThreshold, 0, Ret(Len(users) + 1))
    /\ UNCHANGED <<credentials, cluster_index, heap, probe, pc, loc>>

\* clustered_face_search(query_embedding, db, threshold, num_clusters)
ClusteredFaceSearch ==
    /\ \E q \in Embeddings, t \in SearchThresholds, nc \in 1..MaxClustersToCheck,
          km \in GetOrBuildChoices(cluster_index, heap, users, FALSE) :
          LET g == GetOrBuildIndex(cluster_index, heap, users, FALSE, km)
              r == IndexSearch(g.heap[g.ptr], q, t, nc)
          IN  /\ cluster_index' = g.ptr
              /\ IF g.exc # ""
                 THEN /\ heap' = g.heap
                      /\ last' = CallB("clustered_face_search", q, t, nc, Raise(g.exc), g.build)
                 ELSE /\ heap' = [g.heap EXCEPT ![g.ptr] = r.idx]
                      /\ last' = CallB("clustered_face_search", q, t, nc,
                                       IF r.out.kind = "user" /\ r.out.id \notin StoreIds(users)
                                       THEN RetNone ELSE r.out,
                                       g.build)
    /\ UNCHANGED <<credentials, users, probe, pc, loc>>

\* invalidate_cluster_index()
InvalidateClusterIndex ==
    /\ cluster_index' = 0
    /\ heap' = Collect(heap, {})
    /\ last' = Call("invalidate_cluster_index", <<>>, 0, 0, RetNone)
    /\ UNCHANGED <<credentials, users, probe, pc, loc>>

\* rebuild_cluster_index(db)
RebuildClusterIndex ==
    /\ \E km \in GetOrBuildChoices(cluster_index, heap, users, TRUE) :
          LET g == GetOrBuildIndex(cluster_index, heap, users, TRUE, km)
          IN  /\ cluster_index' = g.ptr
              /\ heap' = g.heap
              /\ last' = CallB("rebuild_cluster_index", <<>>, 0, 0,
                               IF g.exc = "" THEN RetNone ELSE Raise(g.exc), g.build)
    /\ UNCHANGED <<credentials, users, probe, pc, loc>>

\* greedy_face_check_duplicate(query_embedding, db, threshold, top_k): db.query(User).all()
\* is the users table as it stands
GreedyCheckDuplicate ==
    /\ \E q \in Embeddings, t \in SearchThresholds, top_k \in 1..MaxTopK :
          last' = Call("greedy_face_check_duplicate", q, t, top_k,
                       GreedyFaceCheckDuplicate(q, users, t, top_k))
    /\ UNCHANGED <<credentials, users, cluster_index, heap, probe, pc, loc>>

Next == Register \/ ClusteredFaceSearch \/ InvalidateClusterIndex \/ RebuildClusterIndex

Spec == Init /\ [][Next]_vars

\* SpecGreedy: the users table as register fills it, asked through the greedy matcher
NextGreedy == Register \/ GreedyCheckDuplicate

SpecGreedy == Init /\ [][NextGreedy]_vars

(***************************************************************************)
(* SpecLogin: POST /login against the tables that registrations leave.     *)
(***************************************************************************)
\* payload.password of a login request
LoginPasswords == {"", "pw", "pw2"}

\* security.verify_password: bcrypt.checkpw accepts the password the hash was made of
VerifyPassword(password, password_hash) == password_hash = HashPassword(password)

\* security.create_access_token: a signed token with sub = str(user_id)
CreateAccessToken(user_id) == [sub |-> user_id]

\* TokenResponse(access_token = token, matched = True)
TokenResponse(token) == [kind |-> "token", id |-> token.sub, err |-> ""]

LoginScanFirstFace(e, password, us, i) ==
    LET faces == {j \in i..Len(us) :
                    EmbeddingsMatch(e, JsonLoads(us[j].face_embedding).val, DefaultThreshold)}
    IN  IF faces # {} /\ VerifyPassword(password, us[MinOf(faces)].password_hash)
        THEN TokenResponse(CreateAccessToken(us[MinOf(faces)].id))
        ELSE Raise("Invalid credentials.")

\* the loop of login over db.query(User).all(): rows whose face does not match are
\* skipped; the first row whose face matches and whose password verifies ends it
RECURSIVE LoginScan(_, _, _, _)
LoginScan(e, password, us, i) ==
    IF i > Len(us) THEN Raise("Invalid credentials.")
    ELSE IF ~JsonLoads(us[i].face_embedding).ok THEN Raise("JSONDecodeError")
    ELSE IF ~Broadcastable(e, JsonLoads(us[i].face_embedding).val) THEN Raise("ValueError")
    ELSE IF ~EmbeddingsMatch(e, JsonLoads(us[i].face_embedding).val, DefaultThreshold)
    THEN LoginScan(e, password, us, i + 1)
    ELSE IF VerifyPassword(password, us[i].password_hash)
    THEN TokenResponse(CreateAccessToken(us[i].id))
    ELSE LoginScan(e, password, us, i + 1)

\* a login request and its answer; q is the embedding computed from the image
LoginCall(password, q, out) ==
    [Call("login", q, DefaultThreshold, 0, out) EXCEPT !.password = password]

\* the table after registrations i.. with passwords pws and faces es
RECURSIVE Enrol(_, _, _, _)
Enrol(us, pws, es, i) ==
    IF i > Len(es) THEN us
    ELSE Enrol(Append(us, NewUser(us, <<"user", i>>, pws[i], es[i])), pws, es, i + 1)

\* register accepts a face only when no enrolled face is within the default threshold
LoginStores ==
    UNION {{Enrol(<<>>, pws, es, 1) :
              pws \in [1..n -> LoginPasswords \ {""}],
              es \in {f \in [1..n -> Embeddings] :
                        \A i, j \in 1..n :
                           i < j => ~EmbeddingsMatch(f[i], f[j], DefaultThreshold)}}
           : n \in 0..MaxUsers}

InitLogin ==
    /\ credentials = <<>>
    /\ users \in LoginStores
    /\ cluster_index = 0
    /\ heap = EmptyMap
    /\ last = NoCall
    /\ probe = [q |-> <<>>, t |-> 0, index |-> NewClusterIndex(0)]
    /\ pc = [th \in Threads |-> "idle"]
    /\ loc = [th \in Threads |-> IdleLoc]

\* POST /login
Login ==
    /\ \E password \in LoginPasswords, img \in Images :
          LET e == ComputeEmbedding(img)
          IN  last' = IF password = ""
                      THEN LoginCall(password, <<>>, Raise("Password is required."))
                      ELSE IF img.kind = "missing"
                      THEN LoginCall(password, <<>>, Raise("Face image is required."))
                      ELSE IF ~e.ok THEN LoginCall(password, <<>>, Raise(e.err))
                      ELSE LoginCall(password, e.val, LoginScan(e.val, password, users, 1))
    /\ UNCHANGED <<credentials, users, cluster_index, heap, probe, pc, loc>>

NextLogin == Register \/ Login

SpecLogin == InitLogin /\ [][NextLogin]_vars

(***************************************************************************)
(* SpecVault: the /vault handlers on the credentials table.  The table is  *)
(* a sequence kept in created_at order (the clock only moves forward), so  *)
(* order_by(created_at.desc()) is the sequence reversed.                   *)
(***************************************************************************)
\* a token that jwt.decode rejects
BadToken == [sub |-> -1]

\* a field a payload does not carry
MissingField == "<missing>"

\* payload.name, payload.category and payload.fields of POST /vault
VaultNames == {"", " bank "}

VaultCategories == {"login", " Login ", "bogus"}

VaultFields ==
    {[username |-> u, password |-> p] : u \in {"u1", ""}, p \in {"p1", MissingField}}

CATEGORY_SCHEMAS == {"login", "email", "credit_card", "id", "medical"}

\* str.strip of the texts the payloads carry
Strip(s) == IF s = " bank " THEN "bank" ELSE IF s = " Login " THEN "Login" ELSE s

\* str.lower / str.upper of the category texts
Lower(s) == IF s = "Login" THEN "login" ELSE s

Upper(s) == IF s = "login" THEN "LOGIN" ELSE s

\* deps.get_current_user: the users row the bearer token names, or 401
GetCurrentUser(token, us) ==
    IF token = NoToken THEN Raise("Missing authentication token.")
    ELSE IF token = BadToken THEN Raise("Invalid authentication token.")
    ELSE IF \E i \in 1..Len(us) : us[i].id = token.sub THEN Ret(token.sub)
    ELSE Raise("User not found.")

\* vault.normalize_category
NormalizeCategory(category) ==
    IF Lower(Strip(category)) \in CATEGORY_SCHEMAS THEN Parsed(Lower(Strip(category)))
    ELSE ParseErr("Category must be one of: credit_card, email, id, login, medical.")

\* vault.validate_fields for the login schema: both fields are required strings
ValidateFields(category, fields) ==
    IF fields.username = MissingField \/ fields.password = MissingField
    THEN ParseErr("ValidationError")
    ELSE Parsed(fields)

\* vault.derive_identifier for the login schema, then `identifier.strip() or
\* category.upper()` of create_vault_entry
DeriveIdentifier(category, fields) ==
    IF fields.username # "" THEN fields.username ELSE Upper(category)

\* vault.serialize_fields: json.dumps of the model's dict
SerializeFields(fields) == Text("json", "dict", fields)

\* vault.parse_secret_blob: the dict a JSON text spells, {"secret": blob} otherwise
ParseSecretBlob(blob) ==
    IF blob.fmt = "json" /\ blob.type = "dict" THEN blob.val ELSE [secret |-> blob]

\* the primary key SQLite gives the next row: one more than the largest in the table
NextCredentialId(creds) ==
    IF Len(creds) = 0 THEN 1
    ELSE 1 + (CHOOSE m \in {creds[i].id : i \in 1..Len(creds)} :
                 \A i \in 1..Len(creds) : creds[i].id <= m)

FindEntryAnyOwner(creds, user_id, entry_id) ==
    {i \in 1..Len(creds) : creds[i].id = entry_id}

\* filter(Credential.user_id == user.id, Credential.id == entry_id): the positions
\* of the rows that pass
FindEntry(creds, user_id, entry_id) ==
    {i \in 1..Len(creds) : creds[i].user_id = user_id /\ creds[i].id = entry_id}

\* VaultEntrySummary of a row
Summary(row) ==
    [id |-> row.id, name |-> row.name, username |-> row.username, category |-> row.category]

\* the rows of user_id, newest first
RECURSIVE EntriesOf(_, _, _)
EntriesOf(creds, user_id, i) ==
    IF i = 0 THEN <<>>
    ELSE IF creds[i].user_id = user_id
    THEN <<Summary(creds[i])>> \o EntriesOf(creds, user_id, i - 1)
    ELSE EntriesOf(creds, user_id, i - 1)

\* the table without the row at position i
RemoveAt(creds, i) == SubSeq(creds, 1, i - 1) \o SubSeq(creds, i + 1, Len(creds))

\* a vault request and its answer: arg is the entry_id of the path (0 when there is
\* none), q the body of the answer
VaultCall(op, token, arg, q, out) ==
    [Call(op, q, 0, arg, out) EXCEPT !.token = token]

Done(id) == [kind |-> "ok", id |-> id, err |-> ""]

\* two enrolled users
VaultUsers == Enrol(<<>>, <<"pw", "pw2">>, <<<<0, 0>>, <<10, 10>>>>, 1)

\* tokens a request can carry: none, a malformed one, one issued to an enrolled
\* user, one issued to a user the table no longer holds
VaultTokens ==
    {NoToken, BadToken} \cup {CreateAccessToken(u) : u \in 1..(Len(VaultUsers) + 1)}

InitVault ==
    /\ users = VaultUsers
    /\ credentials = <<>>
    /\ cluster_index = 0
    /\ heap = EmptyMap
    /\ last = NoCall
    /\ probe = [q |-> <<>>, t |-> 0, index |-> NewClusterIndex(0)]
    /\ pc = [th \in Threads |-> "idle"]
    /\ loc = [th \in Threads |-> IdleLoc]

\* GET /vault
ListVaultEntries ==
    /\ \E token \in VaultTokens :
          LET user == GetCurrentUser(token, users)
          IN  last' = IF user.kind = "raise" THEN VaultCall("list_vault_entries", token, 0, <<>>, user)
                      ELSE VaultCall("list_vault_entries", token, 0,
                                     EntriesOf(credentials, user.id, Len(credentials)), Done(0))
    /\ UNCHANGED <<users, credentials, cluster_index, heap, probe, pc, loc>>

\* POST /vault; the IV the cipher draws for the new row is named by the row's id
CreateVaultEntry ==
    /\ Len(credentials) < MaxCreds
    /\ \E token \in VaultTokens, name \in VaultNames, category \in VaultCategories,
          fields \in VaultFields :
          LET user == GetCurrentUser(token, users)
              category_normalized == NormalizeCategory(category)
              fields_model == ValidateFields(category_normalized.val, fields)
              id == NextCredentialId(credentials)
              credential ==
                  [id |-> id, user_id |-> user.id, name |-> Strip(name),
                   username |-> DeriveIdentifier(category_normalized.val, fields_model.val),
                   password_encrypted |-> EncryptSecret(SerializeFields(fields_model.val), id),
                   category |-> category_normalized.val]
              reject(out) ==
                  /\ last' = VaultCall("create_vault_entry", token, 0, <<>>, out)
                  /\ credentials' = credentials
          IN  IF user.kind = "raise" THEN reject(user)
              ELSE IF Strip(name) = "" THEN reject(Raise("Name is required."))
              ELSE IF ~category_normalized.ok THEN reject(Raise(category_normalized.err))
              ELSE IF ~fields_model.ok THEN reject(Raise(fields_model.err))
              ELSE /\ credentials' = Append(credentials, credential)
                   /\ last' = VaultCall("create_vault_entry", token, 0,
                                        <<Summary(credential)>>, Done(id))
    /\ UNCHANGED <<users, cluster_index, heap, probe, pc, loc>>

\* GET /vault/{entry_id}
GetVaultEntry ==
    /\ \E token \in VaultTokens, entry_id \in 1..MaxCreds :
          LET user == GetCurrentUser(token, users)
              found == FindEntry(credentials, user.id, entry_id)
              entry == credentials[MinOf(found)]
              decrypted == DecryptSecret(entry.password_encrypted)
          IN  last' = IF user.kind = "raise"
                      THEN VaultCall("get_vault_entry", token, entry_id, <<>>, user)
                      ELSE IF found = {}
                      THEN VaultCall("get_vault_entry", token, entry_id, <<>>,
                                     Raise("Entry not found."))
                      ELSE IF ~decrypted.ok
                      THEN VaultCall("get_vault_entry", token, entry_id, <<>>,
                                     Raise(decrypted.err))
                      ELSE VaultCall("get_vault_entry", token, entry_id,
                                     <<Summary(entry), ParseSecretBlob(decrypted.val)>>,
                                     Done(entry.id))
    /\ UNCHANGED <<users, credentials, cluster_index, heap, probe, pc, loc>>

\* DELETE /vault/{entry_id}
DeleteVaultEntry ==
    /\ \E token \in VaultTokens, entry_id \in 1..MaxCreds :
          LET user == GetCurrentUser(token, users)
              found == FindEntry(credentials, user.id, entry_id)
          IN  IF user.kind = "raise"
              THEN /\ last' = VaultCall("delete_vault_entry", token, entry_id, <<>>, user)
                   /\ credentials' = credentials
              ELSE IF found = {}
              THEN /\ last' = VaultCall("delete_vault_entry", token, entry_id, <<>>,
                                        Raise("Entry not found."))
                   /\ credentials' = credentials
              ELSE /\ credentials' = RemoveAt(credentials, MinOf(found))
                   /\ last' = VaultCall("delete_vault_entry", token, entry_id, <<>>, Done(0))
    /\ UNCHANGED <<users, cluster_index, heap, probe, pc, loc>>

NextVault == ListVaultEntries \/ CreateVaultEntry \/ GetVaultEntry \/ DeleteVaultEntry

SpecVault == InitVault /\ [][NextVault]_vars

(***************************************************************************)
(* SpecConc: requests served by NumThreads worker threads that share       *)
(* _cluster_index.  pc[th] names the source line thread th executes next   *)
(* (g: get_or_build_index, b: build_index, s: search); loc[th] holds its   *)
(* locals.  The users table is fixed while the requests run.               *)
(***************************************************************************)
ConcQueries == {<<0, 0>>}

RECURSIVE RegisterAll(_, _, _)
RegisterAll(us, es, i) ==
    IF i > Len(es) THEN us
    ELSE RegisterAll(Append(us, NewUser(us, <<"user", i>>, "pw", es[i])), es, i + 1)

\* stores that sequential registrations produce
ConcStores ==
    {RegisterAll(<<>>, es, 1) : es \in {<<<<0, 0>>>>, <<<<5, 5>>, <<0, 0>>>>}}

LiveRefs(ptr, lc) ==
    ({ptr} \cup {lc[th].self : th \in Threads} \cup {lc[th].index : th \in Threads}) \ {0}

InitConc ==
    /\ credentials = <<>>
    /\ users \in ConcStores
    /\ cluster_index = 0
    /\ heap = EmptyMap
    /\ last = NoCall
    /\ probe = [q |-> <<>>, t |-> 0, index |-> NewClusterIndex(0)]
    /\ pc = [th \in Threads |-> "idle"]
    /\ loc = [th \in Threads |-> IdleLoc]

\* the request of thread th ends with answer out
Finish(th, out, hp) ==
    /\ pc' = [pc EXCEPT ![th] = "idle"]
    /\ loc' = [loc EXCEPT ![th] = IdleLoc]
    /\ last' = Call(loc[th].op, loc[th].q, loc[th].t, loc[th].nc, out)
    /\ heap' = Collect(hp, LiveRefs(cluster_index, [loc EXCEPT ![th] = IdleLoc]))

Goto(th, label, lc) ==
    /\ pc' = [pc EXCEPT ![th] = label]
    /\ loc' = [loc EXCEPT ![th] = lc]

\* a request arrives: clustered_face_search or rebuild_cluster_index
CStart(th) ==
    /\ pc[th] = "idle"
    /\ \/ \E q \in ConcQueries :
            Goto(th, "g146", [IdleLoc EXCEPT !.op = "clustered_face_search", !.q = q,
                                             !.t = DefaultThreshold, !.nc = MaxClustersToCheck])
       \/ Goto(th, "g146", [IdleLoc EXCEPT !.op = "rebuild_cluster_index", !.force = TRUE])
    /\ UNCHANGED <<credentials, users, cluster_index, heap, last, probe>>

\* invalidate_cluster_index(): _cluster_index = None
CInvalidate(th) ==
    /\ pc[th] = "idle"
    /\ cluster_index' = 0
    /\ heap' = Collect(heap, LiveRefs(0, loc))
    /\ last' = Call("invalidate_cluster_index", <<>>, 0, 0, RetNone)
    /\ UNCHANGED <<credentials, users, probe, pc, loc>>

\* line 146: if _cluster_index is None or force_rebuild or not _cluster_index.is_built
G146(th) ==
    /\ pc[th] = "g146"
    /\ IF NeedsBuild(cluster_index, heap, loc[th].force)
       THEN Goto(th, "g147", loc[th])
       ELSE Goto(th, "g158", loc[th])
    /\ UNCHANGED <<credentials, users, cluster_index, heap, last, probe>>

\* line 147: users = db.query(User).all()
G147(th) ==
    /\ pc[th] = "g147"
    /\ Goto(th, "g149", [loc[th] EXCEPT !.users = users])
    /\ UNCHANGED <<credentials, users, cluster_index, heap, last, probe>>

\* line 149: if _cluster_index is None
G149(th) ==
    /\ pc[th] = "g149"
    /\ IF cluster_index = 0 THEN Goto(th, "g154", loc[th]) ELSE Goto(th, "g156", loc[th])
    /\ UNCHANGED <<credentials, users, cluster_index, heap, last, probe>>

\* lines 152-154: _cluster_index = ClusterIndex(n_clusters=optimal_clusters)
G154(th) ==
    /\ pc[th] = "g154"
    /\ LET o == MinOf(ObjIds \ DOMAIN heap)
       IN  /\ cluster_index' = o
           /\ heap' = Collect((o :> NewClusterIndex(OptimalClusters(Len(loc[th].users)))) @@ heap,
                              LiveRefs(o, loc))
    /\ Goto(th, "g156", loc[th])
    /\ UNCHANGED <<credentials, users, last, probe>>

\* line 156: _cluster_index.build_index(users) reads the global and enters build_index
G156(th) ==
    /\ pc[th] = "g156"
    /\ IF cluster_index = 0
       THEN /\ Finish(th, Raise("AttributeError"), heap)
            /\ UNCHANGED <<credentials, users, cluster_index, probe>>
       ELSE /\ Goto(th, "b34", [loc[th] EXCEPT !.self = cluster_index])
            /\ UNCHANGED <<credentials, users, cluster_index, heap, last, probe>>

\* lines 34-39: an empty snapshot clears is_built and returns
B34(th) ==
    /\ pc[th] = "b34"
    /\ IF Len(loc[th].users) = 0
       THEN /\ heap' = [heap EXCEPT ![loc[th].self].is_built = FALSE]
            /\ Goto(th, "g158", [loc[th] EXCEPT !.self = 0])
       ELSE /\ heap' = heap
            /\ Goto(th, "b44", [loc[th] EXCEPT !.i = 1])
    /\ UNCHANGED <<credentials, users, cluster_index, last, probe>>

\* lines 44-48, one user per step: self.user_embeddings[user.id] = np.array(embedding)
B44(th) ==
    /\ pc[th] = "b44"
    /\ LET i == loc[th].i
           u == loc[th].users[i]
       IN  IF i > Len(loc[th].users)
           THEN /\ Goto(th, "b55", loc[th])
                /\ UNCHANGED <<credentials, heap, last>>
           ELSE IF ~JsonLoads(u.face_embedding).ok
           THEN Finish(th, Raise("JSONDecodeError"), heap)
           ELSE /\ heap' = [heap EXCEPT ![loc[th].self].user_embeddings =
                                (u.id :> JsonLoads(u.face_embedding).val) @@ @]
                /\ Goto(th, "b44", [loc[th] EXCEPT !.i = i + 1])
                /\ last' = last
    /\ UNCHANGED <<credentials, users, cluster_index, probe>>

\* lines 53-55: labels = kmeans.fit_predict(embeddings_array)
B55(th) ==
    /\ pc[th] = "b55"
    /\ \E km \in KMeansOutcomes(Len(loc[th].users),
                               NClusters(heap[loc[th].self].n_clusters, Len(loc[th].users))) :
          IF km.ok
          THEN /\ Goto(th, "b58", [loc[th] EXCEPT !.labels = km.labels, !.centers = km.centers])
               /\ UNCHANGED <<credentials, heap, last>>
          ELSE Finish(th, Raise("KMeansError"), heap)
    /\ UNCHANGED <<credentials, users, cluster_index, probe>>

\* line 58: self.cluster_centers = kmeans.cluster_centers_
B58(th) ==
    /\ pc[th] = "b58"
    /\ heap' = [heap EXCEPT ![loc[th].self].cluster_centers = loc[th].centers]
    /\ Goto(th, "b61", loc[th])
    /\ UNCHANGED <<credentials, users, cluster_index, last, probe>>

\* line 61: self.cluster_map.clear()
B61(th) ==
    /\ pc[th] = "b61"
    /\ heap' = [heap EXCEPT ![loc[th].self].cluster_map = EmptyMap]
    /\ Goto(th, "b62", [loc[th] EXCEPT !.i = 1])
    /\ UNCHANGED <<credentials, users, cluster_index, last, probe>>

\* lines 62-63, one user per step: self.cluster_map[int(label)].append(user_id)
B62(th) ==
    /\ pc[th] = "b62"
    /\ LET i == loc[th].i
       IN  IF i > Len(loc[th].users)
           THEN /\ Goto(th, "b65", loc[th])
                /\ heap' = heap
           ELSE /\ heap' = [heap EXCEPT ![loc[th].self].cluster_map =
                                MapAppend(@, loc[th].labels[i], loc[th].users[i].id)]
                /\ Goto(th, "b62", [loc[th] EXCEPT !.i = i + 1])
    /\ UNCHANGED <<credentials, users, cluster_index, last, probe>>

\* line 65: self.is_built = True
B65(th) ==
    /\ pc[th] = "b65"
    /\ heap' = [heap EXCEPT ![loc[th].self].is_built = TRUE]
    /\ Goto(th, "g158", [loc[th] EXCEPT !.self = 0])
    /\ UNCHANGED <<credentials, users, cluster_index, last, probe>>

\* line 158: return _cluster_index; the caller then uses what it got
G158(th) ==
    /\ pc[th] = "g158"
    /\ IF cluster_index = 0
       THEN Finish(th, Raise("AttributeError"), heap)
       ELSE IF loc[th].op = "rebuild_cluster_index"
       THEN Finish(th, RetNone, heap)
       ELSE /\ Goto(th, "s89", [loc[th] EXCEPT !.index = cluster_index])
            /\ UNCHANGED <<credentials, heap, last>>
    /\ UNCHANGED <<credentials, users, cluster_index, probe>>

\* line 89: if not self.is_built or self.cluster_centers is None: return None
S89(th) ==
    /\ pc[th] = "s89"
    /\ IF ~heap[loc[th].index].is_built \/ heap[loc[th].index].cluster_centers = <<>>
       THEN Finish(th, RetNone, heap)
       ELSE /\ Goto(th, "s95", loc[th])
            /\ UNCHANGED <<credentials, heap, last>>
    /\ UNCHANGED <<credentials, users, cluster_index, probe>>

\* lines 95-100: distances to the centroids, nearest_cluster_ids
S95(th) ==
    /\ pc[th] = "s95"
    /\ Goto(th, "s103", [loc[th] EXCEPT !.nearest =
            NearestClusterIds(heap[loc[th].index].cluster_centers, loc[th].q, loc[th].nc)])
    /\ UNCHANGED <<credentials, users, cluster_index, heap, last, probe>>

\* lines 103-113 and 187-191: scan the members of the nearest clusters, fetch the user
S103(th) ==
    /\ pc[th] = "s103"
    /\ LET o == loc[th].index
           r == ScanClusters(heap[o].cluster_map, heap[o].user_embeddings,
                             loc[th].q, loc[th].t, loc[th].nearest, 1)
       IN  Finish(th, IF r.out.kind = "user" /\ r.out.id \notin StoreIds(users)
                      THEN RetNone ELSE r.out,
                  [heap EXCEPT ![o].cluster_map = r.cm])
    /\ UNCHANGED <<credentials, users, cluster_index, probe>>

NextConc ==
    \E th \in Threads :
        \/ CStart(th) \/ CInvalidate(th)
        \/ G146(th) \/ G147(th) \/ G149(th) \/ G154(th) \/ G156(th) \/ G158(th)
        \/ B34(th) \/ B44(th) \/ B55(th) \/ B58(th) \/ B61(th) \/ B62(th) \/ B65(th)
        \/ S89(th) \/ S95(th) \/ S103(th)

SpecConc == InitConc /\ [][NextConc]_vars

(***************************************************************************)
(* SpecCodec: the embedding codec applied to a Python value and a string   *)
(* drawn at the start.  probe.value is the value handed to                 *)
(* encrypt_embedding; probe.blob is the string held, handed to             *)
(* decrypt_embedding; probe.src tells where the string held comes from     *)
(* ("given" at the start, "encoded" when encrypt_embedding(probe.value)    *)
(* returned it, "tampered" when a byte of it was changed since);           *)
(* probe.prev is the string encrypt_embedding returned the time before.    *)
(***************************************************************************)
IVs == {1, 2}

Repeat(n, x) == [i \in 1..n |-> x]

\* lists handed to the codec: valid ones (also at the largest length and next to the
\* range bounds) and ones that break one rule or several
CodecLists ==
    {<<>>, <<0, 0>>, <<5, 5>>, <<MaxAbsValue - 1, 1 - MaxAbsValue>>,
     <<MaxAbsValue, 0>>, <<0, -MaxAbsValue>>, <<0, NaNItem>>, <<0, NonNumericItem, 0>>,
     <<MaxAbsValue, NonNumericItem>>,
     Repeat(MAX_EMBEDDING_DIM, 0), Repeat(MAX_EMBEDDING_DIM + 1, 0),
     Repeat(MAX_EMBEDDING_DIM + 1, NonNumericItem)}

CodecValues == {PyList(v) : v \in CodecLists} \cup {PyArray(<<0, 0>>)}

\* strings handed to decrypt_embedding: tokens of the vault key over JSON lists, over
\* another JSON value and over text that is not JSON; a token of another key; a token
\* with a byte changed; a JSON text and another text that are no tokens at all
CodecStrings ==
    {FernetEncrypt(VaultKey, JsonDumps(v), 1) : v \in CodecLists}
        \cup {FernetEncrypt(VaultKey, Text("json", "dict", <<>>), 1),
              FernetEncrypt(VaultKey, Text("text", "", <<>>), 1),
              FernetEncrypt(OtherKey, JsonDumps(<<0, 0>>), 1),
              [FernetEncrypt(VaultKey, JsonDumps(<<0, 0>>), 1) EXCEPT !.mac = "bad"],
              JsonDumps(<<0, 0>>),
              Text("text", "", <<>>)}

InitCodec ==
    /\ credentials = <<>>
    /\ probe \in {[q |-> <<>>, t |-> 0, index |-> NewClusterIndex(0),
                   value |-> x, blob |-> b, src |-> "given", prev |-> b] :
                     x \in CodecValues, b \in CodecStrings}
    /\ users = <<>>
    /\ last = NoCall
    /\ cluster_index = 0
    /\ heap = EmptyMap
    /\ pc = [th \in Threads |-> "idle"]
    /\ loc = [th \in Threads |-> IdleLoc]

\* encrypt_embedding(probe.value); last.arg is the IV the cipher drew
CEncrypt ==
    /\ \E iv \in IVs :
          LET r == EncryptEmbedding(probe.value, iv)
          IN  IF r.ok
              THEN /\ probe' = [probe EXCEPT !.blob = r.str, !.src = "encoded",
                                             !.prev = IF probe.src = "encoded"
                                                      THEN probe.blob ELSE r.str]
                   /\ last' = Call("encrypt_embedding", <<>>, 0, iv,
                                   [kind |-> "blob", id |-> 0, err |-> ""])
              ELSE /\ probe' = probe
                   /\ last' = Call("encrypt_embedding", <<>>, 0, iv, Raise(r.err))
    /\ UNCHANGED <<credentials, users, cluster_index, heap, pc, loc>>

\* decrypt_embedding(probe.blob); last.q is the list it returned
CDecrypt ==
    /\ LET r == DecryptEmbedding(probe.blob)
       IN  last' = Call("decrypt_embedding", r.val, 0, 0,
                        IF r.ok THEN [kind |-> "list", id |-> 0, err |-> ""] ELSE Raise(r.err))
    /\ UNCHANGED <<credentials, users, cluster_index, heap, probe, pc, loc>>

\* a byte of the token held is changed, so its HMAC no longer verifies
CTamper ==
    /\ probe.blob.fmt = "fernet"
    /\ probe.blob.mac = "ok"
    /\ probe' = [probe EXCEPT !.blob.mac = "bad", !.src = "tampered"]
    /\ last' = Call("tamper", <<>>, 0, 0, NotRun)
    /\ UNCHANGED <<credentials, users, cluster_index, heap, pc, loc>>

NextCodec == CEncrypt \/ CDecrypt \/ CTamper

SpecCodec == InitCodec /\ [][NextCodec]_vars

(***************************************************************************)
(* Properties.                                                             *)
(***************************************************************************)
IsUser(r) == r.kind = "user"

\* the identities an index holds: those of its embedding map, and those of its lists
IndexIds(idx) == DOMAIN idx.user_embeddings

ClusterMembers(idx) ==
    UNION {{idx.cluster_map[c][j] : j \in 1..Len(idx.cluster_map[c])} : c \in DOMAIN idx.cluster_map}

\* the cluster lists without the keys a lookup may have created
MemberLists(idx) ==
    [c \in {d \in DOMAIN idx.cluster_map : Len(idx.cluster_map[d]) > 0} |-> idx.cluster_map[c]]

\* what a build writes
BuiltState(idx) ==
    <<idx.cluster_centers, MemberLists(idx), idx.user_embeddings, idx.is_built>>

\* some enrolled identity lies within distance t of q
SomeWithin(q, us, t) ==
    \E i \in 1..Len(us) : Dist2(q, us[i].face_embedding.val) <= t * t

\* C1: greedy_face_search with top_k = |snapshot| returns an identity exactly when
\* the linear scan naive_face_search returns one, for every snapshot, query and
\* threshold.
C1_GreedyIffLinear ==
    (last.op = "greedy_face_search" /\ last.arg = Len(users))
        => (IsUser(last.out) <=> IsUser(NaiveFaceSearch(last.q, users, last.t)))

\* C2: on an index freshly built from a non-empty snapshot, ClusterIndex.search with
\* num_clusters_to_check equal to the number of centroids returns an identity
\* exactly when the linear scan over the same snapshot finds one within threshold.
C2_ClusterSearchIffLinear ==
    (/\ last.op = "index_search"
     /\ probe.index.is_built
     /\ last.arg = Len(probe.index.cluster_centers)
     /\ last.t = DefaultThreshold)
        => (IsUser(last.out) <=> IsUser(BenchmarkLinearScan(last.q, users)))

\* C3: when register has just inserted identity X, a clustered_face_search that
\* follows with X's exact embedding and all clusters checked returns X.
C3_SearchAfterRegisterFindsNew ==
    [][(/\ last.op = "register" /\ IsUser(last.out)
        /\ last'.op = "clustered_face_search"
        /\ last'.q = last.q
        /\ last'.t = DefaultThreshold
        /\ last'.out.kind # "raise"
        /\ last'.arg >= Len(heap'[cluster_index'].cluster_centers))
          => last'.out = Ret(last.out.id)]_vars

\* C4: a clustered_face_search that finds no index (after invalidate_cluster_index)
\* builds one from the store's current snapshot before searching, so the index it
\* searches holds exactly the identities of the store; and one that finds a built
\* index searches that index as it is, without rebuilding it.
C4_RebuildAfterInvalidate ==
    [][/\ (/\ cluster_index = 0
           /\ last'.op = "clustered_face_search"
           /\ last'.out.kind # "raise")
             => /\ cluster_index' # 0
                /\ last'.build = "built"
                /\ IndexIds(heap'[cluster_index']) = StoreIds(users')
                /\ Len(users') > 0 =>
                      /\ heap'[cluster_index'].is_built
                      /\ ClusterMembers(heap'[cluster_index']) = StoreIds(users')
       /\ (/\ cluster_index # 0
           /\ heap[cluster_index].is_built
           /\ last'.op = "clustered_face_search")
             => /\ cluster_index' = cluster_index
                /\ last'.build = "kept"
                /\ BuiltState(heap'[cluster_index']) = BuiltState(heap[cluster_index])]_vars

C4_Witness ==
    /\ last.op = "clustered_face_search"
    /\ last.build = "built"
    /\ Len(users) >= 2
    /\ IsUser(last.out)
    /\ IndexIds(heap[cluster_index]) = StoreIds(users)

InBuild(th) == pc[th] \in {"b34", "b44", "b55", "b58", "b61", "b62", "b65"}

\* past the is_built test of search, about to read centroids, lists and embeddings
InSearch(th) == pc[th] \in {"s95", "s103"}

\* C5: a search that runs while the shared index is rebuilt reads a complete index:
\* the cluster lists hold exactly the identities of the embedding map, never a
\* cleared or partly filled set of lists.
C5_SearchSeesCompleteIndex ==
    \A th \in Threads :
        InSearch(th) =>
            ClusterMembers(heap[loc[th].index]) = IndexIds(heap[loc[th].index])

\* C6: no two threads execute build_index on the same index object at the same time.
C6_OneRebuildInFlight ==
    \A t1, t2 \in Threads :
        (t1 # t2 /\ InBuild(t1) /\ InBuild(t2)) => loc[t1].self # loc[t2].self

\* C7: a build that fails leaves the previously built index as it was: centroids,
\* cluster lists, embedding map and built flag unchanged, and _cluster_index still
\* referring to it.
C7_FailedBuildKeepsIndex ==
    [][(/\ cluster_index # 0
        /\ heap[cluster_index].is_built
        /\ last'.build = "failed")
          => /\ cluster_index' = cluster_index
             /\ BuiltState(heap'[cluster_index']) = BuiltState(heap[cluster_index])]_vars

\* C8: when the rebuild fails, clustered_face_search does not fail the request; it
\* answers as the linear scan does: an identity exactly when one is within threshold.
C8_FallbackOnFailedBuild ==
    (last.op = "clustered_face_search" /\ last.build = "failed")
        => /\ last.out.kind # "raise"
           /\ IsUser(last.out) <=> SomeWithin(last.q, users, last.t)

\* C9: registrations executed one at a time never leave two enrolled identities within
\* the match threshold of each other, and a registration whose embedding is within
\* threshold of an enrolled identity is rejected and leaves the store unchanged.
C9_RegistrationUnique ==
    [][/\ \A i, j \in 1..Len(users') :
             i # j => Dist2(users'[i].face_embedding.val, users'[j].face_embedding.val)
                        > DefaultThreshold * DefaultThreshold
       /\ (/\ last'.op = "register"
           /\ Len(last'.q) > 0
           /\ SomeWithin(last'.q, users, DefaultThreshold))
             => /\ last'.out.kind = "raise"
                /\ users' = users]_vars

C9_Witness ==
    /\ last = Call("register", last.q, DefaultThreshold, 0, Raise("Face already registered."))
    /\ Len(users) >= 2
    /\ \E i \in 1..Len(users) :
          Dist2(last.q, users[i].face_embedding.val) = DefaultThreshold * DefaultThreshold

\* C10: no enrolled user's face_embedding column holds the plaintext JSON of the
\* embedding; every stored value is a blob of the embedding codec.
C10_StoredEmbeddingsEncrypted ==
    \A i \in 1..Len(users) : users[i].face_embedding.fmt = "fernet"

(***************************************************************************)
(* SpecReg: POST /register served by NumThreads server processes on one    *)
(* database.  The handler is a coroutine: inside one process nothing else  *)
(* runs between two awaits, so lines 53-68 (the duplicate loop and the     *)
(* insert) are not interleaved with another request of the same process;   *)
(* across processes each database call is a step of its own.  pc[th] is    *)
(* the line process th executes next, loc[th].users the rows its duplicate *)
(* loop read.                                                              *)
(***************************************************************************)
RegUsernames == {"ann", "bob"}

RegImages == {[kind |-> "noface", e |-> <<>>]} \cup {[kind |-> "face", e |-> e] : e \in Embeddings}

InFlight == {th \in Threads : pc[th] # "idle"}

RegFinish(th, out) ==
    /\ pc' = [pc EXCEPT ![th] = "idle"]
    /\ loc' = [loc EXCEPT ![th] = IdleLoc]
    /\ last' = Call("register", loc[th].q, DefaultThreshold, 0, out)

\* lines 25-51: the username lookup and the embedding of the image
R25(th) ==
    /\ pc[th] = "idle"
    /\ Len(users) + Cardinality(InFlight) < MaxUsers
    /\ \E username \in RegUsernames, img \in RegImages :
          IF \E i \in 1..Len(users) : users[i].username_hash = HashUsername(username)
          THEN /\ last' = Call("register", <<>>, DefaultThreshold, 0,
                               Raise("Username already registered."))
               /\ UNCHANGED <<pc, loc>>
          ELSE IF ~ComputeEmbedding(img).ok
          THEN /\ last' = Call("register", <<>>, DefaultThreshold, 0,
                               Raise(ComputeEmbedding(img).err))
               /\ UNCHANGED <<pc, loc>>
          ELSE /\ Goto(th, "r53", [IdleLoc EXCEPT !.op = "register", !.name = username,
                                                  !.q = ComputeEmbedding(img).val])
               /\ last' = last
    /\ UNCHANGED <<credentials, users, cluster_index, heap, probe>>

\* lines 53-59: db.query(User).all() and the duplicate loop over what it returned
R53(th) ==
    /\ pc[th] = "r53"
    /\ IF FaceAlreadyRegistered(loc[th].q, users, 1)
       THEN RegFinish(th, Raise("Face already registered."))
       ELSE /\ Goto(th, "r61", [loc[th] EXCEPT !.users = users])
            /\ last' = last
    /\ UNCHANGED <<credentials, users, cluster_index, heap, probe>>

\* lines 61-68: the insert; the unique index on username_hash refuses a second row
\* with the same name
R61(th) ==
    /\ pc[th] = "r61"
    /\ IF \E i \in 1..Len(users) : users[i].username_hash = HashUsername(loc[th].name)
       THEN /\ RegFinish(th, Raise("IntegrityError"))
            /\ users' = users
       ELSE /\ RegFinish(th, Ret(Len(users) + 1))
            /\ users' = Append(users, NewUser(users, loc[th].name, "pw", loc[th].q))
    /\ UNCHANGED <<credentials, cluster_index, heap, probe>>

NextReg == \E th \in Threads : R25(th) \/ R53(th) \/ R61(th)

SpecReg == Init /\ [][NextReg]_vars

(***************************************************************************)
(* Properties of the matchers, the index, registration and the codec.     *)
(***************************************************************************)
\* C11: when greedy_face_check_duplicate is asked about the exact embedding of an
\* enrolled identity, it answers true, for every top_k >= 1 and whatever else is
\* enrolled.
C11_EnrolledIsDuplicate ==
    (/\ last.op = "greedy_face_check_duplicate"
     /\ \E i \in 1..Len(users) : StoredEmbedding(users, i) = last.q)
        => last.out = [kind |-> "bool", id |-> 1, err |-> ""]

\* the enrolled identity asked about is not the nearest-first row of the table and
\* only one candidate is looked at
C11_Witness ==
    /\ last.op = "greedy_face_check_duplicate"
    /\ last.arg = 1
    /\ Len(users) >= 2
    /\ StoredEmbedding(users, 1) # last.q
    /\ \E i \in 2..Len(users) : StoredEmbedding(users, i) = last.q
    /\ last.out.id = 1

\* the positions of the rows of us within threshold t of q, by the stored values
HitsOf(q, us, t) == {i \in 1..Len(us) : Dist2(q, us[i].face_embedding.val) <= t * t}

\* C12: on a snapshot it can decode, the linear matcher returns the first row in
\* stored order whose distance is at most the threshold (a distance equal to the
\* threshold matches), and returns none only when no row is within the threshold.
C12_LinearReturnsFirstWithin ==
    (/\ last.op = "naive_face_search"
     /\ \A i \in 1..Len(users) : DecryptEmbedding(users[i].face_embedding).ok)
        => IF HitsOf(last.q, users, last.t) = {}
           THEN last.out = RetNone
           ELSE last.out = Ret(users[MinOf(HitsOf(last.q, users, last.t))].id)

\* two rows match, the first of them is not row 1 and lies exactly at the threshold
C12_Witness ==
    /\ last.op = "naive_face_search"
    /\ IsUser(last.out)
    /\ Cardinality(HitsOf(last.q, users, last.t)) >= 2
    /\ MinOf(HitsOf(last.q, users, last.t)) >= 2
    /\ Dist2(last.q, users[MinOf(HitsOf(last.q, users, last.t))].face_embedding.val)
          = last.t * last.t

\* C13: on a snapshot it can decode, greedy_face_search returns none when no row is
\* within the threshold; otherwise it returns an identity whose distance is at most
\* the threshold and is the minimum over the snapshot, for every top_k >= 1 (so an
\* exact match is returned when one is enrolled).
C13_GreedyReturnsNearestWithin ==
    (/\ last.op = "greedy_face_search"
     /\ \A i \in 1..Len(users) : JsonLoads(users[i].face_embedding).ok)
        => IF HitsOf(last.q, users, last.t) = {}
           THEN last.out = RetNone
           ELSE /\ IsUser(last.out)
                /\ \E i \in HitsOf(last.q, users, last.t) :
                      /\ users[i].id = last.out.id
                      /\ \A j \in 1..Len(users) :
                            Dist2(last.q, StoredEmbedding(users, i))
                               <= Dist2(last.q, StoredEmbedding(users, j))

\* several rows are within the threshold, the nearest is an exact match stored after
\* a farther one, and more than one candidate is looked at
C13_Witness ==
    /\ last.op = "greedy_face_search"
    /\ last.arg >= 2
    /\ IsUser(last.out)
    /\ last.out.id >= 2
    /\ 1 \in HitsOf(last.q, users, last.t)
    /\ StoredEmbedding(users, 1) # last.q
    /\ \E i \in 2..Len(users) : users[i].id = last.out.id /\ StoredEmbedding(users, i) = last.q

\* C14: on an empty snapshot greedy_face_search returns none and
\* greedy_face_check_duplicate returns false, neither raising; build_index on an
\* empty snapshot returns with the index not built, and a search on an index that
\* is not built returns none, also when the index was built from a non-empty
\* snapshot before.
C14_EmptySnapshot ==
    /\ (last.op = "greedy_face_search" /\ Len(users) = 0) => last.out = RetNone
    /\ (last.op = "greedy_face_check_duplicate" /\ Len(users) = 0)
          => last.out = [kind |-> "bool", id |-> 0, err |-> ""]
    /\ (last.op = "naive_face_search" /\ Len(users) = 0) => last.out = RetNone
    /\ (last.op = "build_index" /\ last.arg = 0)
          => last.out = RetNone /\ ~probe.index.is_built
    /\ (last.op = "index_search" /\ ~probe.index.is_built) => last.out = RetNone

\* a search on an index that was built from a snapshot with a matching row and then
\* rebuilt from the empty snapshot
C14_Witness ==
    /\ last.op = "index_search"
    /\ ~probe.index.is_built
    /\ probe.index.cluster_centers # <<>>
    /\ \E id \in DOMAIN probe.index.user_embeddings :
          Dist2(last.q, probe.index.user_embeddings[id]) <= last.t * last.t
    /\ last.out = RetNone

\* the positions <<c, j>> of the cluster lists of idx
ClusterSlots(idx) ==
    UNION {{<<c, j>> : j \in 1..Len(idx.cluster_map[c])} : c \in DOMAIN idx.cluster_map}

\* how many times identity id occurs in the cluster lists of idx
Occurrences(idx, id) ==
    Cardinality({cj \in ClusterSlots(idx) : idx.cluster_map[cj[1]][cj[2]] = id})

\* C15: while the index is built from a non-empty snapshot, every identity of the
\* snapshot occurs in exactly one cluster list and once in it, the lists hold no
\* other identity, and every identity in a list has an entry in user_embeddings.
C15_ClusterCoverage ==
    probe.index.is_built =>
        /\ \A id \in StoreIds(users) : Occurrences(probe.index, id) = 1
        /\ \A cj \in ClusterSlots(probe.index) :
              /\ probe.index.cluster_map[cj[1]][cj[2]] \in StoreIds(users)
              /\ probe.index.cluster_map[cj[1]][cj[2]] \in DOMAIN probe.index.user_embeddings

\* a build that has just put the snapshot into two non-empty cluster lists
C15_Witness ==
    /\ last.op = "build_index"
    /\ last.arg >= 2 * ClusterTargetSize
    /\ probe.index.is_built
    /\ \E c, d \in DOMAIN probe.index.cluster_map :
          c # d /\ Len(probe.index.cluster_map[c]) >= 2 /\ Len(probe.index.cluster_map[d]) >= 2

\* C16: registrations served concurrently are inserted only after their duplicate
\* loop found no row within the threshold in the rows it read; the rows inserted
\* since are not looked at, so two registrations within the threshold of each other
\* can both be inserted (the state C16_Witness).
C16_InsertChecksOnlyItsSnapshot ==
    [][\A th \in Threads :
          (pc[th] = "r61" /\ Len(users') = Len(users) + 1 /\ pc'[th] = "idle")
             => /\ users'[Len(users')].face_embedding = JsonDumps(loc[th].q)
                /\ HitsOf(loc[th].q, loc[th].users, DefaultThreshold) = {}]_vars

\* two enrolled identities lie within the threshold of each other
C16_Witness ==
    /\ last.op = "register"
    /\ IsUser(last.out)
    /\ \E i \in 1..Len(users) :
          /\ i # last.out.id
          /\ EmbeddingsMatch(StoredEmbedding(users, i), last.q, DefaultThreshold)

\* a non-empty list of at most 4096 elements, each a number strictly between -1e6
\* and 1e6
IsValidEmbedding(x) ==
    /\ x.type = "list"
    /\ Len(x.val) >= 1
    /\ Len(x.val) <= 4096
    /\ \A i \in 1..Len(x.val) :
          /\ x.val[i] \notin {NonNumericItem, NaNItem}
          /\ x.val[i] > -10000000
          /\ x.val[i] < 10000000

\* the message names a rule that x breaks
NamesBrokenRule(msg, x) ==
    \/ msg = "Embedding must be a list" /\ x.type # "list"
    \/ msg = "Embedding cannot be empty" /\ x.type = "list" /\ Len(x.val) = 0
    \/ msg = "Embedding too large: max 4096 dimensions" /\ x.type = "list" /\ Len(x.val) > 4096
    \/ /\ msg = "Embedding must contain only numbers"
       /\ x.type = "list"
       /\ \E i \in 1..Len(x.val) : x.val[i] = NonNumericItem
    \/ /\ msg = "Embedding contains out-of-range values"
       /\ x.type = "list"
       /\ \E i \in 1..Len(x.val) :
             x.val[i] = NaNItem \/ x.val[i] <= -10000000 \/ x.val[i] >= 10000000

\* C17: encrypt_embedding returns a blob exactly when its argument is a non-empty
\* list of at most 4096 numbers strictly between -1e6 and 1e6; for every other
\* argument it raises an error whose message names a rule the argument breaks and
\* produces no blob (the string held stays as it was).
C17_EncodeAcceptsIffValid ==
    [][last'.op = "encrypt_embedding" =>
          IF IsValidEmbedding(probe.value)
          THEN /\ last'.out.kind = "blob"
               /\ probe'.src = "encoded"
               /\ probe'.blob.fmt = "fernet"
          ELSE /\ last'.out.kind = "raise"
               /\ NamesBrokenRule(last'.out.err, probe.value)
               /\ probe' = probe]_vars

\* a list with an element exactly at the bound 1e6 is refused as out of range
C17_Witness ==
    /\ last.op = "encrypt_embedding"
    /\ last.out = Raise("Embedding contains out-of-range values")
    /\ probe.value.type = "list"
    /\ \A i \in 1..Len(probe.value.val) :
          probe.value.val[i] >= -MaxAbsValue /\ probe.value.val[i] <= MaxAbsValue
    /\ probe.src = "given"

\* the string held is a token of the vault key whose HMAC verifies
Authentic(s) == s.fmt = "fernet" /\ s.key = VaultKey /\ s.mac = "ok"

\* C18: decrypt_embedding of a token that authenticates and whose plaintext is a JSON
\* list that is empty, longer than 4096, or holds a non-numeric or out-of-range
\* element raises; it does not return the list.
C18_DecodeValidates ==
    (/\ last.op = "decrypt_embedding"
     /\ Authentic(probe.blob)
     /\ probe.blob.inner = "json"
     /\ probe.blob.type = "list"
     /\ ~IsValidEmbedding(PyList(probe.blob.val)))
        => last.out.kind = "raise"

C21_DimensionMismatchRaises ==
    /\ (/\ last.op = "embeddings_match"
        /\ Len(last.q) # Len(StoredEmbedding(users, last.arg)))
          => last.out.kind = "raise"
    /\ (/\ last.op = "greedy_face_search"
        /\ \E i \in 1..Len(users) : Len(last.q) # Len(StoredEmbedding(users, i)))
          => last.out.kind = "raise"

\* C22: for embeddings of equal length, embeddings_match with threshold t answers
\* true whenever the distance is at most some t1 <= t, in particular when the
\* distance equals t.
C22_ThresholdMonotoneInclusive ==
    (/\ last.op = "embeddings_match"
     /\ Len(last.q) = Len(StoredEmbedding(users, last.arg)))
        => /\ last.out.kind = "bool"
           /\ \A t1 \in 0..last.t :
                 SumSq(last.q, StoredEmbedding(users, last.arg), Len(last.q)) <= t1 * t1
                    => last.out.id = 1

\* a pair at distance 0.7 matches under threshold 0.8
C22_Witness ==
    /\ last.op = "embeddings_match"
    /\ Len(last.q) = 2
    /\ Len(StoredEmbedding(users, last.arg)) = 2
    /\ SumSq(last.q, StoredEmbedding(users, last.arg), 2) = DefaultThreshold * DefaultThreshold
    /\ last.t > DefaultThreshold
    /\ last.out.id = 1

\* C23: right after a successful build from a non-empty snapshot, the centroids,
\* cluster lists and embedding map of the index are those some fresh index built
\* from that snapshot alone would have, and hold no identity outside the snapshot.
C23_RebuildReplacesState ==
    (last.op = "build_index" /\ last.out = RetNone /\ last.arg > 0)
        => LET snapshot == SubSeq(users, 1, last.arg)
               fresh == NewClusterIndex(probe.index.n_clusters)
           IN  /\ IndexIds(probe.index) \subseteq StoreIds(snapshot)
               /\ ClusterMembers(probe.index) \subseteq StoreIds(snapshot)
               /\ \E km \in KMeansChoices(fresh, snapshot) :
                     BuildIndex(fresh, snapshot, km).idx = probe.index

\* squared distance from q to the centroid of cluster c (c counts from 0)
CenterDist2(idx, q, c) == Dist2(idx.cluster_centers[c + 1], q)

\* the clusters of idx, one per centroid
Clusters(idx) == 0..(Len(idx.cluster_centers) - 1)

\* cluster c is among the nc nearest to q under some order of equally distant centroids
MaybeNearest(idx, q, c, nc) ==
    Cardinality({d \in Clusters(idx) : CenterDist2(idx, q, d) < CenterDist2(idx, q, c)}) < nc

\* cluster c is among the nc nearest to q under every such order
SurelyNearest(idx, q, c, nc) ==
    Cardinality({d \in Clusters(idx) \ {c} :
                    CenterDist2(idx, q, d) <= CenterDist2(idx, q, c)}) < nc

\* the member at position cj of the cluster lists is within threshold t of q
SlotWithin(idx, q, t, cj) ==
    Dist2(q, idx.user_embeddings[idx.cluster_map[cj[1]][cj[2]]]) <= t * t

\* C24: a search on a built index returns a member of one of the num_clusters_to_check
\* clusters nearest to the query, within the threshold, such that no member of a
\* nearer cluster and no earlier member of its own cluster is within the threshold;
\* it returns none only when no member of those nearest clusters is within the
\* threshold; it never returns a member of a cluster that is not among them.
C24_SearchOrder ==
    (last.op = "index_search" /\ probe.index.is_built)
        => LET idx == probe.index
           IN  \/ /\ IsUser(last.out)
                  /\ \E cj \in ClusterSlots(idx) :
                        /\ idx.cluster_map[cj[1]][cj[2]] = last.out.id
                        /\ SlotWithin(idx, last.q, last.t, cj)
                        /\ MaybeNearest(idx, last.q, cj[1], last.arg)
                        /\ \A dk \in ClusterSlots(idx) :
                              (\/ CenterDist2(idx, last.q, dk[1]) < CenterDist2(idx, last.q, cj[1])
                               \/ (dk[1] = cj[1] /\ dk[2] < cj[2]))
                                 => ~SlotWithin(idx, last.q, last.t, dk)
               \/ /\ last.out = RetNone
                  /\ \A dk \in ClusterSlots(idx) :
                        SurelyNearest(idx, last.q, dk[1], last.arg)
                           => ~SlotWithin(idx, last.q, last.t, dk)

\* one cluster is looked at; the identity returned sits in the nearer cluster while an
\* identity stored before it, in the farther cluster, is also within the threshold
C24_Witness ==
    /\ last.op = "index_search"
    /\ last.arg = 1
    /\ probe.index.is_built
    /\ IsUser(last.out)
    /\ \E dk \in ClusterSlots(probe.index) :
          /\ probe.index.cluster_map[dk[1]][dk[2]] < last.out.id
          /\ SlotWithin(probe.index, last.q, last.t, dk)
          /\ ~MaybeNearest(probe.index, last.q, dk[1], 1)

\* C25: a successful build from n >= 1 rows with configured maximum m >= 1 has
\* k = min(m, max(1, floor(n / 5))) centroids, and 1 <= k <= m and k <= n; the same
\* bounds hold for the cluster count computed for every n and m in a wider range.
C25_ClusterCount ==
    /\ (last.op = "build_index" /\ last.out = RetNone /\ last.arg >= 1)
          => LET n == last.arg
                 m == probe.index.n_clusters
                 k == Len(probe.index.cluster_centers)
             IN  /\ \E f \in 0..n :
                       /\ 5 * f <= n
                       /\ n < 5 * f + 5
                       /\ k = (IF f = 0 THEN 1 ELSE IF f <= m THEN f ELSE m)
                 /\ 1 <= k
                 /\ k <= m
                 /\ k <= n
    /\ \A n \in 1..(5 * MaxIndexSnap), m \in 1..MinOptimalClusters :
          /\ 1 <= NClusters(m, n)
          /\ NClusters(m, n) <= m
          /\ NClusters(m, n) <= n
          /\ 5 * NClusters(m, n) <= n \/ NClusters(m, n) = 1

\* a build from at least ten rows under a maximum of 20 that made two centroids
C25_Witness ==
    /\ last.op = "build_index"
    /\ last.out = RetNone
    /\ last.arg >= 2 * ClusterTargetSize
    /\ probe.index.n_clusters = MinOptimalClusters
    /\ Len(probe.index.cluster_centers) = 2

\* C26: on a built index get_stats reports total_users equal to the number of rows of
\* the snapshot of the latest successful build and to the sum of the cluster sizes,
\* and num_clusters equal to the number of centroids.
C26_StatsMatchIndex ==
    (last.op = "get_stats" /\ probe.index.is_built)
        => /\ last.out.kind = "built"
           /\ last.q[1] = Len(users)
           /\ last.q[1] = last.q[3]
           /\ last.q[2] = Len(probe.index.cluster_centers)

\* C27: a search leaves the index as it was (centroids, cluster map with its keys,
\* embedding map, built flag), so get_stats reports the same before and after.
C27_SearchReadOnly ==
    [][last'.op = "index_search"
          => /\ probe'.index = probe.index
             /\ GetStats(probe'.index) = GetStats(probe.index)]_vars


\* C28: on a snapshot it can decode, for every top_k >= 1 (smaller than, equal to
\* or larger than the snapshot) greedy_face_search returns an identity exactly when
\* some row of the snapshot is within the threshold of the query.
C28_GreedyTopKIffWithin ==
    (/\ last.op = "greedy_face_search"
     /\ last.arg >= 1
     /\ \A i \in 1..Len(users) : JsonLoads(users[i].face_embedding).ok)
        => (IsUser(last.out) <=> HitsOf(last.q, users, last.t) # {})

\* only one candidate is looked at, the snapshot holds more rows, and the only rows
\* within the threshold are stored after a row that is not
C28_Witness ==
    /\ last.op = "greedy_face_search"
    /\ last.arg = 1
    /\ Len(users) > last.arg
    /\ HitsOf(last.q, users, last.t) # {}
    /\ 1 \notin HitsOf(last.q, users, last.t)
    /\ IsUser(last.out)

\* the rows whose stored face is within the default threshold of e and whose
\* password hash the password verifies against
LoginHits(e, password, us) ==
    {i \in 1..Len(us) : /\ EmbeddingsMatch(e, StoredEmbedding(us, i), DefaultThreshold)
                        /\ VerifyPassword(password, us[i].password_hash)}

\* C29: login answers with a token only for an enrolled user whose stored face is
\* within the threshold of the submitted one and whose password hash verifies the
\* submitted password; the token is for the first such row in table order, also
\* when earlier rows match the face with another password; when there is no such
\* row, or the request lacks a password or a usable image, no token is issued (401
\* "Invalid credentials." when the scan ran).
C29_LoginRequiresFaceAndPassword ==
    last.op = "login"
        => IF last.password = "" \/ last.q = <<>>
           THEN last.out.kind = "raise"
           ELSE IF LoginHits(last.q, last.password, users) = {}
           THEN last.out = Raise("Invalid credentials.")
           ELSE last.out = TokenResponse(CreateAccessToken(
                              users[MinOf(LoginHits(last.q, last.password, users))].id))

\* the first row matches the submitted face but not the password, and the token
\* goes to a later row that matches both
C29_Witness ==
    /\ last.op = "login"
    /\ last.out.kind = "token"
    /\ Len(users) >= 2
    /\ EmbeddingsMatch(last.q, StoredEmbedding(users, 1), DefaultThreshold)
    /\ ~VerifyPassword(last.password, users[1].password_hash)
    /\ last.out.id = users[2].id

\* the caller of the last vault request is an enrolled user
Authenticated(call) == call.token.sub \in StoreIds(users)

\* the rows of the table with primary key id that user_id does not own
OwnedByOther(creds, user_id, id) ==
    {i \in 1..Len(creds) : creds[i].id = id /\ creds[i].user_id # user_id}

\* C30: whatever create, list, get and delete calls came before, a list answers an
\* enrolled caller with entries of that caller only, and a get or delete by an
\* enrolled caller of an entry that another user owns answers 404 "Entry not
\* found.", carries no entry data or decrypted fields, and leaves the table as it
\* was.
C30_VaultIsolation ==
    [][/\ (last'.op = "list_vault_entries" /\ Authenticated(last'))
            => \A k \in 1..Len(last'.q) :
                  \E i \in 1..Len(credentials) :
                     /\ credentials[i].user_id = last'.token.sub
                     /\ Summary(credentials[i]) = last'.q[k]
       /\ (/\ last'.op \in {"get_vault_entry", "delete_vault_entry"}
           /\ Authenticated(last')
           /\ OwnedByOther(credentials, last'.token.sub, last'.arg) # {})
            => /\ last'.out = Raise("Entry not found.")
               /\ last'.q = <<>>
               /\ credentials' = credentials]_vars

\* both users hold entries, and one of them asks for the other's entry by its id
C30_Witness ==
    /\ last.op \in {"get_vault_entry", "delete_vault_entry"}
    /\ Authenticated(last)
    /\ last.out = Raise("Entry not found.")
    /\ OwnedByOther(credentials, last.token.sub, last.arg) # {}
    /\ \E i \in 1..Len(credentials) : credentials[i].user_id = last.token.sub
====
